---- MODULE Spec2Model ----
(***************************************************************************)
(* A model of classifier.py: the multi-repo materializer, the navigation   *)
(* resolver, the content locator, the two dispatch backends, the response  *)
(* interpreter and the main loop that sequences them.                      *)
(*                                                                         *)
(* Strings are sequences of lexical tokens (a scheme prefix, a '#', a '?', *)
(* a brace, a path word ...), so that startswith, split, find and rfind    *)
(* are computed on them the way the code computes them on characters.      *)
(***************************************************************************)
EXTENDS Integers, Sequences, FiniteSets, TLC

VARIABLES
    pc,            \* position of the running function
    nav,           \* config["nav"], a tree of dicts, lists and strings
    provider,      \* args.provider
    nav_files,     \* the list load_mkdocs_nav returned
    i,             \* 1-based position of main's loop in nav_files
    results,       \* main's results dict, in insertion order
    printed,       \* TRUE once the final aggregated report was printed
    content,       \* the located content of the current file (0: none)
    raw_response,  \* what send_request returned for the current file
    retries,       \* send_to_openai's retries
    retry_delay,   \* send_to_openai's retry_delay
    attempts,      \* outcomes of the requests of the current send_to_openai call
    waits,         \* durations of the sleeps of the current send_to_openai call
    exhausted,     \* the current call left its loop with retries = max_retries
    sent,          \* per position: number of send_request calls
    located,       \* per position: read_file_content returned content
    recorded,      \* per position: number of assignments to results[file]
    slept,         \* number of pacing sleeps done by main
    fsys,          \* the file system seen by read_file_content: path -> content
    config,        \* the loaded config, as far as read_file_content uses it
    file_path,     \* read_file_content's argument
    rd,            \* read_file_content's outcome
    response_text, \* parse_json_response's argument
    parsed,        \* parse_json_response's result
    nav_repos,     \* multi_repo_config["nav_repos"]
    r,             \* 1-based position of clone_multi_repos's loop
    dirs,          \* target_dir: name -> working copy
    dirs0,         \* target_dir before the run
    ops            \* the git commands run so far

mainVars == <<nav, provider, nav_files, i, results, printed, content, sent, located, recorded, slept>>
callVars == <<raw_response, retries, retry_delay, attempts, waits, exhausted>>
readVars == <<fsys, config, file_path, rd>>
parseVars == <<response_text, parsed>>
cloneVars == <<nav_repos, r, dirs, dirs0, ops>>
vars == <<pc, mainVars, callVars, readVars, parseVars, cloneVars>>

-----------------------------------------------------------------------------
(* Bounds *)

\* longest list of a generated navigation tree
MaxItems == 2
\* longest navigation of a full run
MaxDocs == 2
\* number of distinct file contents
NumContents == 2
\* longest response text given to parse_json_response
MaxTextLen == 4
\* longest nav_repos list
MaxRepos == 3

-----------------------------------------------------------------------------
(* Strings *)

Range(s) == {s[k] : k \in 1..Len(s)}
SeqsUpTo(S, n) == UNION {[1..k -> S] : k \in 0..n}
MinOf(S) == CHOOSE x \in S : \A y \in S : x <= y
MaxOf(S) == CHOOSE x \in S : \A y \in S : x >= y

\* str.startswith(prefix), the prefix being one token
startswith(s, prefix) == Len(s) >= 1 /\ s[1] = prefix

\* str.find(c) and str.rfind(c): 0-based, -1 when absent
find(s, c) ==
    LET at == {k \in 1..Len(s) : s[k] = c}
    IN IF at = {} THEN -1 ELSE MinOf(at) - 1
rfind(s, c) ==
    LET at == {k \in 1..Len(s) : s[k] = c}
    IN IF at = {} THEN -1 ELSE MaxOf(at) - 1

\* s[start:end] for start, end >= 0
slice(s, start, end) ==
    LET e == IF end > Len(s) THEN Len(s) ELSE end
    IN SubSeq(s, start + 1, e)

\* s.split(sep)[0] and re.split(sep, s)[0]
split_first(s, sep) ==
    IF find(s, sep) = -1 THEN s ELSE slice(s, 0, find(s, sep))

-----------------------------------------------------------------------------
(* Navigation trees *)

Str(s) == [t |-> "str", s |-> s, items |-> <<>>]
List(xs) == [t |-> "list", s |-> <<>>, items |-> xs]
Dict(kvs) == [t |-> "dict", s |-> <<>>, items |-> kvs]
KV(k, v) == [k |-> k, v |-> v]

IndexMd == <<"index.md">>
SetupMd == <<"setup.md">>
GuideAnchor == <<"guide.md", "#", "setup">>
ExternalUrl == <<"https://", "example.com">>
PlainUrl == <<"http://", "example.com">>

Paths == {IndexMd, GuideAnchor, ExternalUrl}
Labels == <<"Home", "Guide", "Setup", "External">>

StrNodes == {Str(p) : p \in Paths}
\* a dict whose k-th key is the k-th label
DictOf(vals) == Dict([k \in 1..Len(vals) |-> KV(Labels[k], vals[k])])
\* the dicts of one or two keys
DictsOver(S) == {DictOf(vals) : vals \in SeqsUpTo(S, 2) \ {<<>>}}
Entries == StrNodes \cup DictsOver(StrNodes)

\* nav: [{Home: index.md}, {Guide: [{Setup: setup.md}, {External: "https://example.com"}]}]
ExampleNav ==
    List(<< Dict(<<KV("Home", Str(IndexMd))>>),
            Dict(<<KV("Guide",
                      List(<< Dict(<<KV("Setup", Str(SetupMd))>>),
                              Dict(<<KV("External", Str(ExternalUrl))>>) >>))>>) >>)

\* the trees load_mkdocs_nav is applied to
NavTrees ==
    {List(xs) : xs \in SeqsUpTo(Entries, MaxItems)}
    \cup {List(<<Dict(<<KV("Guide", List(xs))>>)>>) : xs \in SeqsUpTo(Entries, MaxItems)}
    \cup {ExampleNav}

\* the trees a full run is started with
RunEntries ==
    {Dict(<<KV("Home", Str(p))>>) : p \in {IndexMd, GuideAnchor, ExternalUrl}}
    \cup {Str(IndexMd),
          Dict(<<KV("External", Str(PlainUrl)), KV("Setup", Str(SetupMd))>>)}
RunNavs == {List(xs) : xs \in SeqsUpTo(RunEntries, MaxDocs)} \cup {ExampleNav}

RECURSIVE extract_files(_)
RECURSIVE extract_dict(_, _)
RECURSIVE extract_list(_, _)

\* for v in value: extract_files(v)
extract_list(xs, k) ==
    IF k > Len(xs) THEN <<>>
    ELSE extract_files(xs[k]) \o extract_list(xs, k + 1)

\* for key, value in item.items(): ..., the items from the k-th on; the return
\* at an external link leaves the loop (and the call)
extract_dict(kvs, k) ==
    IF k > Len(kvs) THEN <<>>
    ELSE LET value == kvs[k].v
         IN IF value.t = "list"
            THEN extract_list(value.items, 1) \o extract_dict(kvs, k + 1)
            ELSE IF value.t = "str"
            THEN IF startswith(value.s, "http://") \/ startswith(value.s, "https://")
                 THEN <<>>
                 ELSE <<split_first(value.s, "#")>> \o extract_dict(kvs, k + 1)
            ELSE extract_dict(kvs, k + 1)

\* what one call of extract_files appends to nav_files
extract_files(item) ==
    IF item.t = "dict" THEN extract_dict(item.items, 1)
    ELSE IF item.t = "list" THEN extract_list(item.items, 1)
    ELSE <<>>

load_mkdocs_nav(tree) == extract_files(tree)


-----------------------------------------------------------------------------
(* Content locator *)

Missing == 0
Contents == 1..NumContents

\* the config with no docs_dir key, and one that sets it
Configs == {[docs_dir |-> <<>>], [docs_dir |-> <<"content">>]}
\* config.get("docs_dir", "docs")
docs_dir_of(cfg) == IF cfg.docs_dir = <<>> THEN <<"docs">> ELSE cfg.docs_dir

\* os.path.dirname(config_path) and clone_dir
base == <<"site">>
clone_dir == <<"tmp">>

\* os.path.join of relative paths
join(a, b) == a \o b

\* the paths a lookup of ref may touch, under either config
CandidatePaths(ref) ==
    {join(join(base, docs_dir_of(c)), ref) : c \in Configs}
    \cup {join(base, ref), join(clone_dir, ref)}
FileSystems(ref) == [CandidatePaths(ref) -> {Missing} \cup Contents]

\* os.path.exists(candidate)
exists(f, candidate) == f[candidate] # Missing

Found(c) == [ok |-> TRUE, content |-> c]
NotFound == [ok |-> FALSE, content |-> Missing]

\* a lookup that prefers the project root to the docs root
read_file_content_swapped(fp, cfg, f) ==
    LET c1 == join(base, fp)
        c2 == join(join(base, docs_dir_of(cfg)), fp)
        c3 == join(clone_dir, fp)
    IN IF exists(f, c1) THEN Found(f[c1])
       ELSE IF exists(f, c2) THEN Found(f[c2])
       ELSE IF exists(f, c3) THEN Found(f[c3])
       ELSE NotFound

\* the content of the first existing candidate, or FileNotFoundError
read_file_content(fp, cfg, f) ==
    LET docs_dir == docs_dir_of(cfg)
        c1 == join(join(base, docs_dir), fp)
        c2 == join(base, fp)
        c3 == join(clone_dir, fp)
    IN IF exists(f, c1) THEN Found(f[c1])
       ELSE IF exists(f, c2) THEN Found(f[c2])
       ELSE IF exists(f, c3) THEN Found(f[c3])
       ELSE NotFound

-----------------------------------------------------------------------------
(* Response interpreter *)

\* Tokens of a response text: the braces, a comma, prose, and two JSON member
\* lists: "req" is  "dominant": "tutorial", "explanation": 10, "tutorial": 70,
\* "how_to": 10, "reference": 10  and "part" is  "dominant": "tutorial"
TextTokens == {"{", "}", ",", "w", "req", "part"}
RequiredKeys == {"dominant", "explanation", "tutorial", "how_to", "reference"}
MemberKeys(tok) == IF tok = "req" THEN RequiredKeys ELSE {"dominant"}
Members == {"req", "part"}

\* the values main stores in results
Object(keys) == [kind |-> "object", keys |-> keys, raw |-> <<>>, msg |-> ""]
ParseError(msg, text) ==
    [kind |-> "parse_error", keys |-> {"error", "raw_response"}, raw |-> text, msg |-> msg]
None == [kind |-> "None", keys |-> {}, raw |-> <<>>, msg |-> ""]
ErrMsg(msg) == [kind |-> "err_msg", keys |-> {}, raw |-> <<>>, msg |-> msg]

\* json.loads on a text: an object when the text is '{' members '}', the
\* members separated by commas
Decodes(t) ==
    /\ Len(t) >= 2
    /\ t[1] = "{"
    /\ t[Len(t)] = "}"
    /\ LET inner == SubSeq(t, 2, Len(t) - 1)
       IN \/ inner = <<>>
          \/ /\ Len(inner) % 2 = 1
             /\ \A k \in 1..Len(inner) :
                   IF k % 2 = 1 THEN inner[k] \in Members ELSE inner[k] = ","
DecodedKeys(t) ==
    UNION {MemberKeys(t[k]) : k \in {j \in 1..Len(t) : t[j] \in Members}}

\* an interpreter that cuts the text before its last '}'
parse_json_response_short(text) ==
    LET start == find(text, "{")
        end == rfind(text, "}")
    IN IF start = -1 \/ end = -1
       THEN ParseError("No valid JSON object found.", text)
       ELSE IF Decodes(slice(text, start, end))
            THEN Object(DecodedKeys(slice(text, start, end)))
            ELSE ParseError("json", text)

parse_json_response(text) ==
    LET start == find(text, "{")
        end == rfind(text, "}") + 1
    IN IF start = -1 \/ end = -1
       THEN ParseError("No valid JSON object found.", text)
       ELSE LET json_text == slice(text, start, end)
            IN IF Decodes(json_text)
               THEN Object(DecodedKeys(json_text))
               ELSE ParseError("json", text)

\* all response texts up to the bound
Texts == SeqsUpTo(TextTokens, MaxTextLen)
\* the spec's wrapped example and the texts a run's provider answers with
WrappedText == <<"w", "{", "req", "}", "w">>
RunTexts == {<<>>, <<"w">>, <<"{", "part", "}">>, WrappedText}

-----------------------------------------------------------------------------
(* Hosted backend *)

\* a loop that allows one request more
max_retries_more == 5 + 1
max_retries == 5

\* error texts: str(e) as tokens
ErrRateHint == <<"Rate limit reached", "Please try again in ", "7", "s">>
ErrRatePlain == <<"Rate limit reached">>
ErrRateMillis == <<"Rate limit reached", "Please try again in ", "6", "ms">>
ErrOther == <<"Connection error">>
ErrOtherHint == <<"Connection error", "Please try again in ", "7", "s">>
ErrorTexts == {ErrRateHint, ErrRatePlain, ErrRateMillis, ErrOther, ErrOtherHint}

NumberTokens == {"6", "7"}
\* float(m.group(1))
float(tok) == IF tok = "6" THEN 6 ELSE 7

\* re.search(r"Please try again in ([\d.]+)s", error_str): the positions of a match
search(error_str) ==
    {k \in 1..Len(error_str) :
        /\ error_str[k] = "Please try again in "
        /\ k + 2 <= Len(error_str)
        /\ error_str[k + 1] \in NumberTokens
        /\ error_str[k + 2] = "s"}

\* "Rate limit reached" in error_str
is_rate_limit(error_str) == "Rate limit reached" \in Range(error_str)

\* wait_time = float(m.group(1)) if m else retry_delay
wait_time(error_str, delay) ==
    IF search(error_str) # {}
    THEN float(error_str[MinOf(search(error_str)) + 1])
    ELSE delay

Ok(text) == [ok |-> TRUE, text |-> text, error_str |-> <<>>]
Err(e) == [ok |-> FALSE, text |-> <<>>, error_str |-> e]
Outcomes == {Ok(t) : t \in RunTexts} \cup {Err(e) : e \in ErrorTexts}
RunOutcomes == {Ok(t) : t \in RunTexts} \cup {Err(ErrRatePlain), Err(ErrOther)}

\* a returned string, and the None of "no result"
Some(text) == [some |-> TRUE, text |-> text]
NoResponse == [some |-> FALSE, text |-> <<>>]

-----------------------------------------------------------------------------
(* The results dict *)

Keys(d) == [k \in 1..Len(d) |-> d[k].key]
HasKey(d, key) == \E k \in 1..Len(d) : d[k].key = key
Get(d, key) == d[CHOOSE k \in 1..Len(d) : d[k].key = key].val
\* d[key] = val: a new key goes last, a known key keeps its place
Put(d, key, val) ==
    IF HasKey(d, key)
    THEN [k \in 1..Len(d) |-> IF d[k].key = key THEN [key |-> key, val |-> val] ELSE d[k]]
    ELSE Append(d, [key |-> key, val |-> val])

Providers == {"openai", "ollama"}
file == nav_files[i]

-----------------------------------------------------------------------------
(* main *)

\* nav_files = load_mkdocs_nav(config_path); an empty list ends the run
LoadNav ==
    /\ pc = "load"
    /\ nav_files' = load_mkdocs_nav(nav)
    /\ sent' = [k \in 1..Len(nav_files') |-> 0]
    /\ located' = [k \in 1..Len(nav_files') |-> FALSE]
    /\ recorded' = [k \in 1..Len(nav_files') |-> 0]
    /\ pc' = IF nav_files' = <<>> THEN "returned" ELSE "read"
    /\ UNCHANGED <<nav, provider, i, results, printed, content, slept>>
    /\ UNCHANGED <<callVars, readVars, parseVars, cloneVars>>

\* content = read_file_content(file, config_path, clone_dir), found
ReadFile ==
    /\ pc = "read"
    /\ \E cfg \in Configs, f \in FileSystems(file) :
          /\ read_file_content(file, cfg, f).ok
          /\ content' = read_file_content(file, cfg, f).content
    /\ located' = [located EXCEPT ![i] = TRUE]
    /\ pc' = "send"
    /\ UNCHANGED <<nav, provider, nav_files, i, results, printed, sent, recorded, slept>>
    /\ UNCHANGED <<callVars, readVars, parseVars, cloneVars>>

\* a handler that gives the run up
ReadFailsAborts ==
    /\ pc = "read"
    /\ pc' = "done"
    /\ printed' = TRUE
    /\ UNCHANGED <<nav, provider, nav_files, i, results, content, sent, located, recorded, slept>>
    /\ UNCHANGED <<callVars, readVars, parseVars, cloneVars>>

\* read_file_content raises (not found in any root, or the read itself fails):
\* except Exception as e: results[file] = err_msg
ReadFails ==
    /\ pc = "read"
    /\ \E e \in {"FileNotFoundError", "OSError"} :
          /\ e = "FileNotFoundError" =>
                \E cfg \in Configs, f \in FileSystems(file) :
                    ~read_file_content(file, cfg, f).ok
          /\ results' = Put(results, file, ErrMsg(e))
    /\ recorded' = [recorded EXCEPT ![i] = @ + 1]
    /\ pc' = "sleep"
    /\ UNCHANGED <<nav, provider, nav_files, i, printed, content, sent, located, slept>>
    /\ UNCHANGED <<callVars, readVars, parseVars, cloneVars>>

\* send_request(...) with provider ollama: send_to_ollama, one request, any
\* failure gives None
SendToOllama ==
    /\ pc = "send"
    /\ provider = "ollama"
    /\ sent' = [sent EXCEPT ![i] = @ + 1]
    /\ \E o \in RunOutcomes :
          raw_response' = IF o.ok THEN Some(o.text) ELSE NoResponse
    /\ exhausted' = FALSE
    /\ pc' = "record"
    /\ UNCHANGED <<nav, provider, nav_files, i, results, printed, content, located, recorded, slept>>
    /\ UNCHANGED <<retries, retry_delay, attempts, waits, readVars, parseVars, cloneVars>>

\* send_request(...) with any other provider: send_to_openai is entered
SendToOpenAI ==
    /\ pc = "send"
    /\ provider # "ollama"
    /\ sent' = [sent EXCEPT ![i] = @ + 1]
    /\ retries' = 0
    /\ retry_delay' = 2
    /\ attempts' = <<>>
    /\ waits' = <<>>
    /\ exhausted' = FALSE
    /\ pc' = "openai"
    /\ UNCHANGED <<nav, provider, nav_files, i, results, printed, content, located, recorded, slept>>
    /\ UNCHANGED <<raw_response, readVars, parseVars, cloneVars>>

\* one pass of send_to_openai's loop: a request, and what follows from its outcome
OpenAIRequest(o) ==
    /\ pc = "openai"
    /\ retries < max_retries
    /\ attempts' = Append(attempts, o)
    /\ IF o.ok
       THEN /\ raw_response' = Some(o.text)
            /\ pc' = "record"
            /\ UNCHANGED <<retries, waits>>
       ELSE IF is_rate_limit(o.error_str)
       THEN /\ waits' = Append(waits, wait_time(o.error_str, retry_delay))
            /\ retries' = retries + 1
            /\ UNCHANGED <<raw_response, pc>>
       ELSE /\ raw_response' = NoResponse
            /\ pc' = "record"
            /\ UNCHANGED <<retries, waits>>
    /\ UNCHANGED <<retry_delay, exhausted>>
    /\ UNCHANGED <<mainVars, readVars, parseVars, cloneVars>>

\* the loop ends with retries = max_retries: "Max retries reached", return None
OpenAIExhausted ==
    /\ pc = "openai"
    /\ ~(retries < max_retries)
    /\ raw_response' = NoResponse
    /\ exhausted' = TRUE
    /\ pc' = "record"
    /\ UNCHANGED <<retries, retry_delay, attempts, waits>>
    /\ UNCHANGED <<mainVars, readVars, parseVars, cloneVars>>

\* if raw_response: (None and the empty string are false)
truthy(resp) == resp.some /\ resp.text # <<>>

\* a coordinator that records a missing response as an error message
RecordAsError ==
    /\ pc = "record"
    /\ results' = Put(results, file,
                      IF truthy(raw_response)
                      THEN parse_json_response(raw_response.text)
                      ELSE ErrMsg("No response received for this file."))
    /\ recorded' = [recorded EXCEPT ![i] = @ + 1]
    /\ pc' = "sleep"
    /\ UNCHANGED <<nav, provider, nav_files, i, printed, content, sent, located, slept>>
    /\ UNCHANGED <<callVars, readVars, parseVars, cloneVars>>

\* results[file] = parse_json_response(raw_response), or None without a response
Record ==
    /\ pc = "record"
    /\ results' = Put(results, file,
                      IF truthy(raw_response)
                      THEN parse_json_response(raw_response.text)
                      ELSE None)
    /\ recorded' = [recorded EXCEPT ![i] = @ + 1]
    /\ pc' = "sleep"
    /\ UNCHANGED <<nav, provider, nav_files, i, printed, content, sent, located, slept>>
    /\ UNCHANGED <<callVars, readVars, parseVars, cloneVars>>

\* a loop that goes on to the next file without the pause
SleepSkipped ==
    /\ pc = "sleep"
    /\ IF i < Len(nav_files)
       THEN /\ i' = i + 1
            /\ pc' = "read"
            /\ UNCHANGED printed
       ELSE /\ pc' = "done"
            /\ printed' = TRUE
            /\ UNCHANGED i
    /\ UNCHANGED <<nav, provider, nav_files, results, content, sent, located, recorded, slept>>
    /\ UNCHANGED <<callVars, readVars, parseVars, cloneVars>>

\* time.sleep(1), then the next file, or the final report after the last one
Sleep ==
    /\ pc = "sleep"
    /\ slept' = slept + 1
    /\ IF i < Len(nav_files)
       THEN /\ i' = i + 1
            /\ pc' = "read"
            /\ UNCHANGED printed
       ELSE /\ pc' = "done"
            /\ printed' = TRUE
            /\ UNCHANGED i
    /\ UNCHANGED <<nav, provider, nav_files, results, content, sent, located, recorded>>
    /\ UNCHANGED <<callVars, readVars, parseVars, cloneVars>>

\* values of the variables a specification does not use
IdleMain ==
    /\ nav = List(<<>>) /\ provider = "openai" /\ nav_files = <<>> /\ i = 1
    /\ results = <<>> /\ printed = FALSE /\ content = Missing
    /\ sent = <<>> /\ located = <<>> /\ recorded = <<>> /\ slept = 0
IdleCall ==
    /\ raw_response = NoResponse /\ retries = 0 /\ retry_delay = 2
    /\ attempts = <<>> /\ waits = <<>> /\ exhausted = FALSE
IdleRead ==
    /\ fsys = [p \in {} |-> Missing] /\ config = [docs_dir |-> <<>>]
    /\ file_path = <<>> /\ rd = NotFound
IdleParse == response_text = <<>> /\ parsed = None
IdleClone ==
    /\ nav_repos = <<>> /\ r = 1 /\ dirs = [n \in {} |-> 0]
    /\ dirs0 = [n \in {} |-> 0] /\ ops = <<>>

\* a run of main from the loading of the navigation on
Init ==
    /\ pc = "load"
    /\ nav \in RunNavs
    /\ provider \in Providers
    /\ nav_files = <<>> /\ i = 1 /\ results = <<>> /\ printed = FALSE
    /\ content = Missing
    /\ sent = <<>> /\ located = <<>> /\ recorded = <<>> /\ slept = 0
    /\ IdleCall /\ IdleRead /\ IdleParse /\ IdleClone

Next ==
    \/ LoadNav
    \/ ReadFile
    \/ ReadFails
    \/ SendToOllama
    \/ SendToOpenAI
    \/ \E o \in RunOutcomes : OpenAIRequest(o)
    \/ OpenAIExhausted
    \/ Record
    \/ Sleep

Spec == Init /\ [][Next]_vars

-----------------------------------------------------------------------------
(* load_mkdocs_nav alone, on every generated tree *)

InitNav ==
    /\ pc = "load"
    /\ nav \in NavTrees
    /\ provider = "openai"
    /\ nav_files = <<>> /\ i = 1 /\ results = <<>> /\ printed = FALSE
    /\ content = Missing
    /\ sent = <<>> /\ located = <<>> /\ recorded = <<>> /\ slept = 0
    /\ IdleCall /\ IdleRead /\ IdleParse /\ IdleClone

NextNav == LoadNav

SpecNav == InitNav /\ [][NextNav]_vars

-----------------------------------------------------------------------------
(* read_file_content alone, on every file system *)

Refs == {IndexMd, <<"docs", "index.md">>}

ReadCall ==
    /\ pc = "locate"
    /\ rd' = read_file_content(file_path, config, fsys)
    /\ pc' = "located"
    /\ UNCHANGED <<fsys, config, file_path>>
    /\ UNCHANGED <<mainVars, callVars, parseVars, cloneVars>>

InitRead ==
    /\ pc = "locate"
    /\ file_path \in Refs
    /\ config \in Configs
    /\ fsys \in FileSystems(file_path)
    /\ rd = NotFound
    /\ IdleMain /\ IdleCall /\ IdleParse /\ IdleClone

NextRead == ReadCall

SpecRead == InitRead /\ [][NextRead]_vars

-----------------------------------------------------------------------------
(* parse_json_response alone, on every text *)

ParseCall ==
    /\ pc = "parse"
    /\ parsed' = parse_json_response(response_text)
    /\ pc' = "parsed"
    /\ UNCHANGED response_text
    /\ UNCHANGED <<mainVars, callVars, readVars, cloneVars>>

InitParse ==
    /\ pc = "parse"
    /\ response_text \in Texts \cup {WrappedText}
    /\ parsed = None
    /\ IdleMain /\ IdleCall /\ IdleRead /\ IdleClone

NextParse == ParseCall

SpecParse == InitParse /\ [][NextParse]_vars

-----------------------------------------------------------------------------
(* send_to_openai alone, under every sequence of outcomes *)

InitOpenAI ==
    /\ pc = "openai"
    /\ raw_response = NoResponse /\ retries = 0 /\ retry_delay = 2
    /\ attempts = <<>> /\ waits = <<>> /\ exhausted = FALSE
    /\ IdleMain /\ IdleRead /\ IdleParse /\ IdleClone

NextOpenAI ==
    \/ \E o \in Outcomes : OpenAIRequest(o)
    \/ OpenAIExhausted

SpecOpenAI == InitOpenAI /\ [][NextOpenAI]_vars

-----------------------------------------------------------------------------
(* clone_multi_repos, from the nav_repos list on *)

Names == {"a", "b"}
UrlOne == <<"https://", "host/one.git">>
UrlTwo == <<"https://", "host/two.git", "?", "branch=main">>
\* a missing (or empty) name is "", a missing (or empty) import_url is <<>>
RepoSpecs == [name : Names \cup {""}, import_url : {<<>>, UrlOne, UrlTwo}]

NoDir == [exists |-> FALSE, origin |-> <<>>]
Dir(url) == [exists |-> TRUE, origin |-> url]
PriorUrl == <<"https://", "host/prior.git">>
Existing(d) == {n \in Names : d[n].exists}

repo == nav_repos[r]
\* the step to the next repo, or the end of the function after the last one
Advance ==
    /\ r' = r + 1
    /\ pc' = IF r < Len(nav_repos) THEN "repos" ELSE "cloned"

Op(kind, name, url, ok) ==
    [kind |-> kind, name |-> name, url |-> url, ok |-> ok, idx |-> r, pre |-> Existing(dirs)]

\* if not nav_repos: return; else os.makedirs(target_dir, exist_ok=True)
CloneStart ==
    /\ pc = "clone_start"
    /\ pc' = IF nav_repos = <<>> THEN "cloned" ELSE "repos"
    /\ UNCHANGED <<cloneVars, mainVars, callVars, readVars, parseVars>>

\* if not name or not import_url: continue
SkipRepo ==
    /\ pc = "repos"
    /\ repo.name = "" \/ repo.import_url = <<>>
    /\ Advance
    /\ UNCHANGED <<nav_repos, dirs, dirs0, ops>>
    /\ UNCHANGED <<mainVars, callVars, readVars, parseVars>>

\* an update that clones afresh over the directory
PullRepoReclones ==
    /\ pc = "repos"
    /\ repo.name # "" /\ repo.import_url # <<>>
    /\ dirs[repo.name].exists
    /\ \E ok \in BOOLEAN :
          /\ ops' = Append(ops, Op("pull", repo.name, <<>>, ok))
          /\ dirs' = IF ok
                     THEN [dirs EXCEPT ![repo.name] = Dir(split_first(repo.import_url, "?"))]
                     ELSE dirs
    /\ Advance
    /\ UNCHANGED <<nav_repos, dirs0>>
    /\ UNCHANGED <<mainVars, callVars, readVars, parseVars>>

\* destination exists: git -C destination pull; a failure is printed
PullRepo ==
    /\ pc = "repos"
    /\ repo.name # "" /\ repo.import_url # <<>>
    /\ dirs[repo.name].exists
    /\ \E ok \in BOOLEAN :
          ops' = Append(ops, Op("pull", repo.name, <<>>, ok))
    /\ Advance
    /\ UNCHANGED <<nav_repos, dirs, dirs0>>
    /\ UNCHANGED <<mainVars, callVars, readVars, parseVars>>

\* a clone of the import URL as given
CloneRepoUnstripped ==
    /\ pc = "repos"
    /\ repo.name # "" /\ repo.import_url # <<>>
    /\ ~dirs[repo.name].exists
    /\ \E ok \in BOOLEAN :
          /\ ops' = Append(ops, Op("clone", repo.name, repo.import_url, ok))
          /\ dirs' = IF ok THEN [dirs EXCEPT ![repo.name] = Dir(repo.import_url)] ELSE dirs
    /\ Advance
    /\ UNCHANGED <<nav_repos, dirs0>>
    /\ UNCHANGED <<mainVars, callVars, readVars, parseVars>>

\* destination does not exist: git clone base_url destination; a failure is
\* printed and leaves no directory
CloneRepo ==
    /\ pc = "repos"
    /\ repo.name # "" /\ repo.import_url # <<>>
    /\ ~dirs[repo.name].exists
    /\ LET base_url == split_first(repo.import_url, "?")
       IN \E ok \in BOOLEAN :
             /\ ops' = Append(ops, Op("clone", repo.name, base_url, ok))
             /\ dirs' = IF ok THEN [dirs EXCEPT ![repo.name] = Dir(base_url)] ELSE dirs
    /\ Advance
    /\ UNCHANGED <<nav_repos, dirs0>>
    /\ UNCHANGED <<mainVars, callVars, readVars, parseVars>>

InitClone ==
    /\ pc = "clone_start"
    /\ nav_repos \in SeqsUpTo(RepoSpecs, MaxRepos)
    /\ r = 1
    /\ dirs \in [Names -> {NoDir, Dir(PriorUrl)}]
    /\ dirs0 = dirs
    /\ ops = <<>>
    /\ IdleMain /\ IdleCall /\ IdleRead /\ IdleParse

NextClone ==
    \/ CloneStart
    \/ SkipRepo
    \/ PullRepo
    \/ CloneRepo

SpecClone == InitClone /\ [][NextClone]_vars

-----------------------------------------------------------------------------
(* The properties *)

IsExternal(p) == startswith(p, "http://") \/ startswith(p, "https://")
NotExternal(p) == ~IsExternal(p)

RECURSIVE Leaves(_)
RECURSIVE LeavesOfList(_, _)
RECURSIVE LeavesOfDict(_, _)
LeavesOfList(xs, k) ==
    IF k > Len(xs) THEN <<>> ELSE Leaves(xs[k]) \o LeavesOfList(xs, k + 1)
LeavesOfDict(kvs, k) ==
    IF k > Len(kvs) THEN <<>> ELSE Leaves(kvs[k].v) \o LeavesOfDict(kvs, k + 1)
\* every string leaf of a tree, depth first and left to right
Leaves(node) ==
    IF node.t = "str" THEN <<node.s>>
    ELSE IF node.t = "list" THEN LeavesOfList(node.items, 1)
    ELSE LeavesOfDict(node.items, 1)
\* the accepted leaves, each without its fragment
Flattening(tree) ==
    LET acc == SelectSeq(Leaves(tree), NotExternal)
    IN [k \in 1..Len(acc) |-> split_first(acc[k], "#")]

RECURSIVE Dedup(_)
\* a list without the repetitions of its elements, each at its first place
Dedup(xs) ==
    IF xs = <<>> THEN <<>>
    ELSE LET front == Dedup(SubSeq(xs, 1, Len(xs) - 1))
             last == xs[Len(xs)]
         IN IF last \in Range(front) THEN front ELSE Append(front, last)

\* C1: when the run finishes, the report holds exactly one entry for every
\* reference of the resolved navigation, every reference was processed (once),
\* whatever failed on the way, and the report was printed.
C1_EveryReferenceReported ==
    pc = "done" =>
        /\ Range(Keys(results)) = Range(nav_files)
        /\ \A j, k \in 1..Len(results) : results[j].key = results[k].key => j = k
        /\ i = Len(nav_files)
        /\ \A k \in 1..Len(nav_files) : recorded[k] = 1
        /\ printed

\* C1: a finished run over two references whose first one failed and whose
\* second one was classified.
C1_Witness ==
    /\ pc = "done"
    /\ Len(nav_files) = 2
    /\ Len(results) = 2
    /\ results[1].val.kind = "err_msg"
    /\ results[2].val.kind = "object"

\* C2: the list load_mkdocs_nav returns is as long as the tree has string leaves
\* that are no external links, and it holds no external link.
C2_LeafCount ==
    pc # "load" =>
        /\ Len(nav_files) = Len(SelectSeq(Leaves(nav), NotExternal))
        /\ \A k \in 1..Len(nav_files) : ~IsExternal(nav_files[k])

\* C3: the resolved list is the depth-first, left-to-right flattening of the
\* accepted leaves, the keys of the final report come in that order, and the
\* example navigation resolves to index.md, setup.md, the two keys of its report.
C3_DeclaredOrder ==
    /\ pc # "load" => nav_files = Flattening(nav)
    /\ pc = "done" => Keys(results) = Dedup(nav_files)
    /\ (pc # "load" /\ nav = ExampleNav) => nav_files = <<IndexMd, SetupMd>>
    /\ (pc = "done" /\ nav = ExampleNav) => Keys(results) = <<IndexMd, SetupMd>>

\* the three candidate roots of a reference, in the order of the documentation
Root(k, ref, cfg) ==
    IF k = 1 THEN base \o docs_dir_of(cfg) \o ref
    ELSE IF k = 2 THEN base \o ref
    ELSE clone_dir \o ref
Holding(ref, cfg, f) == {k \in 1..3 : f[Root(k, ref, cfg)] # Missing}

\* C4: read_file_content returns the content of the lowest-numbered root that
\* holds the file, and fails with not-found exactly when no root holds it.
C4_FirstRootWins ==
    pc = "located" =>
        LET holding == Holding(file_path, config, fsys)
        IN IF holding = {}
           THEN ~rd.ok
           ELSE /\ rd.ok
                /\ rd.content = fsys[Root(MinOf(holding), file_path, config)]

\* C4: a lookup of a file held by roots 1 and 2 with different contents.
C4_Witness ==
    /\ pc = "located"
    /\ {1, 2} \subseteq Holding(file_path, config, fsys)
    /\ fsys[Root(1, file_path, config)] # fsys[Root(2, file_path, config)]
    /\ rd.ok

IsRateLimitOutcome(o) == ~o.ok /\ o.error_str \in {ErrRateHint, ErrRatePlain, ErrRateMillis}
\* the wait a rate-limit error asks for: the server's 7 seconds, else 2
ExpectedWait(o) == IF o.error_str = ErrRateHint THEN 7 ELSE 2
RateLimited(as) == SelectSeq(as, IsRateLimitOutcome)

\* C5: a send_to_openai call makes at most 5 requests; every request but the
\* last met a rate limit and was followed by one wait of the suggested duration,
\* else of 2 seconds; the call returns the text of a successful request, no
\* result at once after another error, and no result after 5 rate limits.
C5_BoundedRetry ==
    /\ Len(attempts) <= 5
    /\ \A k \in 1..(Len(attempts) - 1) : IsRateLimitOutcome(attempts[k])
    /\ Len(waits) = Len(RateLimited(attempts))
    /\ \A k \in 1..Len(waits) : waits[k] = ExpectedWait(RateLimited(attempts)[k])
    /\ retry_delay = 2
    /\ pc = "openai" => \A k \in 1..Len(attempts) : IsRateLimitOutcome(attempts[k])
    /\ pc = "record" =>
          LET last == attempts[Len(attempts)]
          IN /\ attempts # <<>>
             /\ last.ok => raw_response = Some(last.text) /\ ~exhausted
             /\ (~last.ok /\ ~IsRateLimitOutcome(last)) => raw_response = NoResponse /\ ~exhausted
             /\ IsRateLimitOutcome(last) =>
                   Len(attempts) = 5 /\ raw_response = NoResponse /\ exhausted

\* C5: a call that ended after 5 rate limits, one of them with a suggested wait.
C5_Witness ==
    /\ pc = "record"
    /\ exhausted
    /\ Len(attempts) = 5
    /\ 7 \in Range(waits)
    /\ 2 \in Range(waits)

\* the dispatch of the current document exhausted the retries
ExhaustedNow == exhausted /\ pc \in {"record", "sleep"} /\ sent[i] = 1

\* C6 as stated: after the retries are exhausted the entry recorded for the
\* document is a failure value that carries a reason.
C6_ExhaustedGivesFailure ==
    (ExhaustedNow /\ pc = "sleep") =>
        /\ HasKey(results, file)
        /\ Get(results, file).kind \in {"err_msg", "parse_error"}
        /\ Get(results, file).msg # ""

\* C6: after the retries are exhausted the dispatch returns no text, the run
\* goes on, and the entry recorded for the document is None.
C6_ExhaustedGivesNone ==
    /\ ExhaustedNow => raw_response = NoResponse
    /\ (ExhaustedNow /\ pc = "sleep") =>
          /\ recorded[i] = 1
          /\ HasKey(results, file)
          /\ Get(results, file) = None

\* C6: a document whose dispatch exhausted the retries has its entry recorded.
C6_Witness ==
    /\ ExhaustedNow
    /\ pc = "sleep"
    /\ Len(attempts) = 5
    /\ Get(results, file) = None

\* the text from the first '{' to the last '}', both included
Braced(t) ==
    LET open == {k \in 1..Len(t) : t[k] = "{"}
        close == {k \in 1..Len(t) : t[k] = "}"}
    IN IF open = {} \/ close = {} THEN <<>>
       ELSE SubSeq(t, MinOf(open), MaxOf(close))
Undecodable(t) == ~("{" \in Range(t)) \/ ~("}" \in Range(t)) \/ ~Decodes(Braced(t))
IsFailureOf(v, t) == v.kind = "parse_error" /\ v.raw = t /\ v.msg # ""

IsValidSpec(sp) == sp.name # "" /\ sp.import_url # <<>>
\* positions of the specs with a name and a URL among the first n
ValidUpTo(n) == {k \in 1..n : k <= Len(nav_repos) /\ IsValidSpec(nav_repos[k])}
Processed == IF pc = "clone_start" THEN 0 ELSE IF pc = "cloned" THEN Len(nav_repos) ELSE r - 1
WithoutQuery(url) ==
    IF "?" \in Range(url)
    THEN SubSeq(url, 1, MinOf({k \in 1..Len(url) : url[k] = "?"}) - 1)
    ELSE url

\* C8: one git command was run for each processed spec with a name and a URL,
\* in list order: a pull when target_dir/name existed at that moment, else a
\* clone of the URL without its query string; a failure stops nothing.
C8_OneOperationPerSpec ==
    /\ Len(ops) = Cardinality(ValidUpTo(Processed))
    /\ \A k \in 1..Len(ops) :
          /\ ops[k].idx \in ValidUpTo(Processed)
          /\ Cardinality(ValidUpTo(ops[k].idx)) = k
          /\ ops[k].name = nav_repos[ops[k].idx].name
          /\ IF ops[k].name \in ops[k].pre
             THEN ops[k].kind = "pull"
             ELSE /\ ops[k].kind = "clone"
                  /\ ops[k].url = WithoutQuery(nav_repos[ops[k].idx].import_url)
    /\ pc = "cloned" => Len(ops) = Cardinality(ValidUpTo(Len(nav_repos)))

\* C8: a finished run whose first command, a clone of a URL with a query
\* string, failed and was followed by two more commands.
C8_Witness ==
    /\ pc = "cloned"
    /\ Len(ops) = 3
    /\ ops[1].kind = "clone" /\ ~ops[1].ok
    /\ "?" \in Range(nav_repos[ops[1].idx].import_url)
    /\ ops[3].kind = "pull"

SpecsNamed(n) == {k \in 1..Len(nav_repos) : IsValidSpec(nav_repos[k]) /\ nav_repos[k].name = n}
GoodClones(n) == {k \in 1..Len(ops) : ops[k].name = n /\ ops[k].kind = "clone" /\ ops[k].ok}

\* C9 as stated: a name given by two or more specs ends as one directory with
\* the content of the last spec of that name.
C9_LastWins ==
    pc = "cloned" =>
        \A n \in Names :
            (Cardinality(SpecsNamed(n)) >= 2 /\ dirs[n].exists /\ ~dirs0[n].exists)
                => dirs[n].origin = WithoutQuery(nav_repos[MaxOf(SpecsNamed(n))].import_url)

\* C9: a name has at most one directory, and the directory keeps the content it
\* got first: that of before the run, else that of the first spec of the name
\* whose clone succeeded; every later spec of the name only pulls into it.
C9_FirstWins ==
    \A n \in Names :
        /\ Cardinality(GoodClones(n)) <= 1
        /\ dirs0[n].exists => (GoodClones(n) = {} /\ dirs[n] = dirs0[n])
        /\ (~dirs0[n].exists /\ GoodClones(n) = {}) => ~dirs[n].exists
        /\ \A c \in GoodClones(n) :
              /\ dirs[n].exists
              /\ dirs[n].origin = WithoutQuery(nav_repos[ops[c].idx].import_url)
              /\ \A k \in 1..Len(ops) :
                    (ops[k].name = n /\ k < c) => (ops[k].kind = "clone" /\ ~ops[k].ok)
              /\ \A k \in 1..Len(ops) : (ops[k].name = n /\ k > c) => ops[k].kind = "pull"

\* C9: two specs of one name and different URLs; the first was cloned, the
\* second pulled, and the directory holds the first one's content.
C9_Witness ==
    /\ pc = "cloned"
    /\ \E n \in Names :
          /\ Cardinality(SpecsNamed(n)) >= 2
          /\ ~dirs0[n].exists
          /\ dirs[n].exists
          /\ dirs[n].origin = WithoutQuery(nav_repos[MinOf(SpecsNamed(n))].import_url)
          /\ dirs[n].origin # WithoutQuery(nav_repos[MaxOf(SpecsNamed(n))].import_url)
          /\ \E k \in 1..Len(ops) : ops[k].name = n /\ ops[k].kind = "pull" /\ ops[k].ok

\* the position main works at, and whether it is still at work there
Busy == pc \in {"read", "send", "openai", "record", "sleep"}

\* C10: every reference gets at most one dispatch, and only after its content
\* was located; a reference is worked on only when every earlier one has its
\* entry recorded and its pause slept, and no later one has been touched.
C10_OneAtATime ==
    (Busy \/ pc = "done") =>
        \A k \in 1..Len(nav_files) :
            /\ sent[k] <= 1
            /\ sent[k] = 1 => located[k]
            /\ recorded[k] = 1 => (located[k] => sent[k] = 1)
            /\ k < i => (recorded[k] = 1 /\ slept >= k)
            /\ k > i => (sent[k] = 0 /\ ~located[k] /\ recorded[k] = 0)
            /\ (k = i /\ pc \in {"read", "send"}) => (sent[k] = 0 /\ recorded[k] = 0)
            /\ (k = i /\ pc = "read") => (~located[k] /\ slept = i - 1)
            /\ (k = i /\ pc = "done") => (recorded[k] = 1 /\ slept = Len(nav_files))

\* C10: a finished run of two references: the first was not found and got no
\* dispatch, the second was located and got one.
C10_Witness ==
    /\ pc = "done"
    /\ Len(nav_files) = 2
    /\ ~located[1] /\ sent[1] = 0
    /\ located[2] /\ sent[2] = 1
    /\ slept = 2
=============================================================================
